---- MODULE Spec2Model ----
(***************************************************************************)
(* A model of MetamaskInpageProvider (src/src/MetamaskInpageProvider.js).  *)
(*                                                                         *)
(* The provider is single-threaded and event driven: every public method,  *)
(* notification handler, response callback and stream-failure callback     *)
(* runs to completion before the next one starts.  One action of the model *)
(* is one such run.  JavaScript values are tagged records, so that typeof,  *)
(* truthiness, ===, || and startsWith are computed the way the engine      *)
(* computes them.  A string is the sequence of its pieces: the strings the *)
(* program looks into (chain ids, network versions, addresses) are split   *)
(* into characters, a method name is one piece, the empty string is <<>>.  *)
(* Logging (loglevel, console.warn) and the deprecation bookkeeping in     *)
(* _state.sentWarnings do not feed back into the program and are left out. *)
(***************************************************************************)
EXTENDS Bags, FiniteSets, Integers, Sequences, TLC

VARIABLES
    chainId,          \* this.chainId
    networkVersion,   \* this.networkVersion
    selectedAddress,  \* this.selectedAddress
    accounts,         \* this._state.accounts
    isUnlocked,       \* this._state.isUnlocked
    isConnected,      \* this._state.isConnected
    pending,          \* requests handed to this._rpcEngine.handle, not yet answered
    last,             \* the run that has just ended: its entry point and input, the
                      \* fields before it, the events it emitted, the requests it
                      \* forwarded and its outcome; idle once the event loop moved on
    counts,           \* over the provider's lifetime: connect and disconnect events
                      \* emitted, requests issued by the constructor
    backend,          \* the wallet backend: the values it holds now and the number
                      \* of messages it has produced
    wire              \* the messages the backend has produced that the transport
                      \* has not delivered yet

vars == <<chainId, networkVersion, selectedAddress, accounts, isUnlocked,
          isConnected, pending, last, counts, backend, wire>>

(***************************************************************************)
(* Bounds of the model.                                                    *)
(***************************************************************************)
\* longest accounts array the backend sends
MaxAccounts == 2
\* most requests in flight at once
MaxPending == 1
\* most messages the backend produces, where the backend is followed
MaxProduced == 4

(***************************************************************************)
(* JavaScript values.                                                      *)
(***************************************************************************)
Null == [t |-> "null"]
Undefined == [t |-> "undefined"]
Bool(b) == [t |-> "boolean", v |-> b]
Num(n) == [t |-> "number", v |-> n]
Str(s) == [t |-> "string", v |-> s]
Arr(a) == [t |-> "array", v |-> a]
Obj(p) == [t |-> "object", props |-> p]
Fn(name) == [t |-> "function", name |-> name]

\* typeof x
TypeOf(x) ==
    IF x.t \in {"null", "array", "object"} THEN "object" ELSE x.t

\* Array.isArray(x)
IsArray(x) == x.t = "array"

\* ToBoolean(x): what `if (x)`, `!x` and `x || y` test
Truthy(x) ==
    CASE x.t \in {"null", "undefined"} -> FALSE
      [] x.t = "boolean" -> x.v
      [] x.t = "number" -> x.v # 0
      [] x.t = "string" -> Len(x.v) > 0
      [] OTHER -> TRUE

\* a || b
Or(a, b) == IF Truthy(a) THEN a ELSE b

\* a === b, for the primitives the provider compares with === and !==
StrictEq(a, b) ==
    /\ a.t = b.t
    /\ a.t \in {"boolean", "number", "string"} => a.v = b.v
    /\ a.t \notin {"array", "object", "function"}

\* o[k]: undefined for a property the value does not have
Prop(o, k) ==
    IF o.t = "object" /\ k \in DOMAIN o.props THEN o.props[k] ELSE Undefined

\* a[i], zero-based
Index(a, i) ==
    IF a.t = "array" /\ i + 1 \in DOMAIN a.v THEN a.v[i + 1] ELSE Undefined

\* s.startsWith(prefix), on the characters of the two strings
startsWith(s, prefix) ==
    /\ Len(s) >= Len(prefix)
    /\ SubSeq(s, 1, Len(prefix)) = prefix

\* dequal replaced by ===, which holds of no two arrays the backend sends
dequalByReference(a, b) == StrictEq(a, b)

\* fast-deep-equal: === on primitives, element by element on arrays
RECURSIVE dequal(_, _)
dequal(a, b) ==
    IF a.t = "array" /\ b.t = "array"
    THEN /\ Len(a.v) = Len(b.v)
         /\ \A i \in DOMAIN a.v : dequal(a.v[i], b.v[i])
    ELSE StrictEq(a, b)

(***************************************************************************)
(* String literals of the source.  No method name starts with "0x".        *)
(***************************************************************************)
s0x == <<"0", "x">>
eth_accounts == <<"eth_accounts">>
eth_requestAccounts == <<"eth_requestAccounts">>
eth_coinbase == <<"eth_coinbase">>
eth_uninstallFilter == <<"eth_uninstallFilter">>
net_version == <<"net_version">>
wallet_getProviderState == <<"wallet_getProviderState">>
wallet_accountsChanged == <<"wallet_accountsChanged">>
wallet_unlockStateChanged == <<"wallet_unlockStateChanged">>
wallet_chainChanged == <<"wallet_chainChanged">>
eth_subscription == <<"eth_subscription">>

\* utils.EMITTED_NOTIFICATIONS: the notifications forwarded as message events
EMITTED_NOTIFICATIONS == {eth_subscription}

\* utils.NOOP
NOOP == Fn("NOOP")

(***************************************************************************)
(* The provider while one run executes: its six fields, the events emitted *)
(* so far (each with the fields as a listener reads them at that moment),  *)
(* the requests forwarded so far, and the exception in flight, if any.     *)
(***************************************************************************)
Fields(c) ==
    [chainId |-> c.chainId, networkVersion |-> c.networkVersion,
     selectedAddress |-> c.selectedAddress, accounts |-> c.accounts,
     isUnlocked |-> c.isUnlocked, isConnected |-> c.isConnected]

Cur ==
    [chainId |-> chainId, networkVersion |-> networkVersion,
     selectedAddress |-> selectedAddress, accounts |-> accounts,
     isUnlocked |-> isUnlocked, isConnected |-> isConnected,
     trace |-> <<>>, out |-> <<>>, thrown |-> "none", ret |-> [kind |-> "none"]]

\* throw: nothing after it runs until it is caught
Throw(c, error) == [c EXCEPT !.thrown = error]

\* the constructor's own listener: this.on('connect', ...)
onConnect(c) == [c EXCEPT !.isConnected = Bool(TRUE)]

\* this.emit(name, arg): the provider's own listener runs first, then the
\* application's listeners, which see the fields as they are at that moment
emit(c, name, arg) ==
    LET c1 == IF name = "connect" THEN onConnect(c) ELSE c
    IN  [c1 EXCEPT !.trace = Append(@, [event |-> name, arg |-> arg, at |-> Fields(c1)])]

(***************************************************************************)
(* Private methods.                                                        *)
(***************************************************************************)

\* this._rpcEngine.handle(payload, cb): the request leaves for the backend
handle(c, payload, cb) ==
    [c EXCEPT !.out = Append(@, [payload |-> payload, cb |-> cb])]

\* the callback _rpcRequest substitutes for eth_accounts / eth_requestAccounts
accountsCallback(payload, callback, isInternal) ==
    [t |-> "function", name |-> "accountsCallback", callback |-> callback,
     isEthAccounts |-> StrictEq(Prop(payload, "method"), Str(eth_accounts)),
     isInternal |-> isInternal]

\* _rpcRequest that looks for the accounts methods inside a batch as well
_rpcRequestInterceptBatch(c, payload, callback, isInternal) ==
    IF ~IsArray(payload)
    THEN IF payload.t # "object"
         THEN Throw(c, "TypeError")
         ELSE LET p == IF ~Truthy(Prop(payload, "jsonrpc"))
                       THEN Obj([k \in DOMAIN payload.props \cup {"jsonrpc"} |->
                                   IF k = "jsonrpc" THEN Str(<<"2.0">>)
                                   ELSE payload.props[k]])
                       ELSE payload
                  m == Prop(p, "method")
              IN  IF StrictEq(m, Str(eth_accounts)) \/ StrictEq(m, Str(eth_requestAccounts))
                  THEN handle(c, p, accountsCallback(p, callback, isInternal))
                  ELSE handle(c, p, callback)
    ELSE IF \E i \in DOMAIN payload.v :
                Prop(payload.v[i], "method") \in {Str(eth_accounts), Str(eth_requestAccounts)}
         THEN handle(c, payload, accountsCallback(payload.v[1], callback, isInternal))
         ELSE handle(c, payload, callback)

\* _rpcRequest (payload, callback, isInternal = false)
_rpcRequest(c, payload, callback, isInternal) ==
    IF ~IsArray(payload)
    THEN IF payload.t # "object"
         THEN \* payload.jsonrpc of null or undefined, or an assignment to a
              \* property of a primitive in strict code
              Throw(c, "TypeError")
         ELSE LET p == IF ~Truthy(Prop(payload, "jsonrpc"))
                       THEN Obj([k \in DOMAIN payload.props \cup {"jsonrpc"} |->
                                   IF k = "jsonrpc" THEN Str(<<"2.0">>)
                                   ELSE payload.props[k]])
                       ELSE payload
                  m == Prop(p, "method")
              IN  IF StrictEq(m, Str(eth_accounts)) \/ StrictEq(m, Str(eth_requestAccounts))
                  THEN handle(c, p, accountsCallback(p, callback, isInternal))
                  ELSE handle(c, p, callback)
    ELSE handle(c, payload, callback)

\* _handleDisconnect that emits whether or not the provider was connected
_handleDisconnectUnconditional(c, streamName) ==
    LET disconnectError == Obj([code |-> Num(1011), reason |-> Str(<<"d">>)])
        c1 == emit(emit(c, "disconnect", disconnectError), "close", disconnectError)
    IN  [c1 EXCEPT !.isConnected = Bool(FALSE)]

\* _handleDisconnect (streamName, err)
_handleDisconnect(c, streamName) ==
    LET disconnectError == Obj([code |-> Num(1011), reason |-> Str(<<"d">>)])
        c1 == IF Truthy(c.isConnected)
              THEN emit(emit(c, "disconnect", disconnectError), "close", disconnectError)
              ELSE c
    IN  [c1 EXCEPT !.isConnected = Bool(FALSE)]

\* _handleAccountsChanged that sets selectedAddress from a first element and
\* never resets it to null
_handleAccountsChangedKeepSelected(c, accts, isEthAccounts, isInternal) ==
    LET _accounts == IF ~IsArray(accts) THEN Arr(<<>>) ELSE accts
        c1 == IF ~dequal(c.accounts, _accounts)
              THEN emit([c EXCEPT !.accounts = _accounts], "accountsChanged", _accounts)
              ELSE c
    IN  IF Truthy(Index(_accounts, 0))
        THEN [c1 EXCEPT !.selectedAddress = Index(_accounts, 0)]
        ELSE c1

\* _handleAccountsChanged (accounts, isEthAccounts = false, isInternal = false)
_handleAccountsChanged(c, accts, isEthAccounts, isInternal) ==
    LET _accounts == IF ~IsArray(accts) THEN Arr(<<>>) ELSE accts
        c1 == IF ~dequal(c.accounts, _accounts)
              THEN emit([c EXCEPT !.accounts = _accounts], "accountsChanged", _accounts)
              ELSE c
    IN  IF ~StrictEq(c1.selectedAddress, Index(_accounts, 0))
        THEN [c1 EXCEPT !.selectedAddress = Or(Index(_accounts, 0), Null)]
        ELSE c1

\* _handleChainChanged that looks for a change in the chain id alone
_handleChainChangedByChainIdOnly(c, networkInfo) ==
    IF networkInfo = Null
    THEN Throw(c, "TypeError")
    ELSE LET cid == Prop(networkInfo, "chainId")
             nv == Prop(networkInfo, "networkVersion")
         IN  IF \/ TypeOf(cid) # "string"
                \/ ~startsWith(cid.v, s0x)
                \/ TypeOf(nv) # "string"
             THEN c
             ELSE IF ~StrictEq(cid, c.chainId)
                  THEN LET c1 == [c EXCEPT !.chainId = cid]
                           c2 == emit(c1, "chainChanged", c1.chainId)
                           c3 == emit(c2, "chainIdChanged", c2.chainId)
                           c4 == [c3 EXCEPT !.networkVersion = nv]
                       IN  emit(c4, "networkChanged", c4.networkVersion)
                  ELSE c

\* _handleChainChanged that emits, for each field, only the events of a
\* field that differs
_handleChainChangedPerField(c, networkInfo) ==
    IF networkInfo = Null
    THEN Throw(c, "TypeError")
    ELSE LET cid == Prop(networkInfo, "chainId")
             nv == Prop(networkInfo, "networkVersion")
         IN  IF \/ TypeOf(cid) # "string"
                \/ ~startsWith(cid.v, s0x)
                \/ TypeOf(nv) # "string"
             THEN c
             ELSE LET c1 == IF ~StrictEq(cid, c.chainId)
                            THEN LET d == [c EXCEPT !.chainId = cid]
                                 IN  emit(emit(d, "chainChanged", d.chainId),
                                          "chainIdChanged", d.chainId)
                            ELSE c
                  IN  IF ~StrictEq(nv, c.networkVersion)
                      THEN LET d == [c1 EXCEPT !.networkVersion = nv]
                           IN  emit(d, "networkChanged", d.networkVersion)
                      ELSE c1

\* _handleChainChanged ({ chainId, networkVersion } = {})
_handleChainChanged(c, networkInfo) ==
    IF networkInfo = Null
    THEN Throw(c, "TypeError")  \* destructuring null; undefined takes the default {}
    ELSE LET cid == Prop(networkInfo, "chainId")
             nv == Prop(networkInfo, "networkVersion")
         IN  IF \/ TypeOf(cid) # "string"
                \/ ~startsWith(cid.v, s0x)
                \/ TypeOf(nv) # "string"
             THEN c
             ELSE IF ~StrictEq(cid, c.chainId) \/ ~StrictEq(nv, c.networkVersion)
                  THEN LET c1 == [c EXCEPT !.chainId = cid]
                           c2 == emit(c1, "chainChanged", c1.chainId)
                           c3 == emit(c2, "chainIdChanged", c2.chainId)
                           c4 == [c3 EXCEPT !.networkVersion = nv]
                       IN  emit(c4, "networkChanged", c4.networkVersion)
                  ELSE c

\* _handleUnlockStateChanged that leaves the accounts alone on a lock
_handleUnlockStateChangedNoClear(c, unlocked) ==
    IF TypeOf(unlocked) # "boolean"
    THEN c
    ELSE IF ~StrictEq(unlocked, c.isUnlocked)
         THEN LET c1 == [c EXCEPT !.isUnlocked = unlocked]
              IN  IF Truthy(unlocked)
                  THEN LET c2 == _rpcRequest(c1,
                                     Obj([method |-> Str(eth_accounts), params |-> Arr(<<>>)]),
                                     NOOP, TRUE)
                       IN  [c2 EXCEPT !.thrown = "none"]
                  ELSE c1
         ELSE c

\* _handleUnlockStateChanged that acts on a value equal to the stored one
_handleUnlockStateChangedNoCompare(c, unlocked) ==
    IF TypeOf(unlocked) # "boolean"
    THEN c
    ELSE LET c1 == [c EXCEPT !.isUnlocked = unlocked]
         IN  IF Truthy(unlocked)
             THEN LET c2 == _rpcRequest(c1,
                                Obj([method |-> Str(eth_accounts), params |-> Arr(<<>>)]),
                                NOOP, TRUE)
                  IN  [c2 EXCEPT !.thrown = "none"]
             ELSE _handleAccountsChanged(c1, Arr(<<>>), FALSE, FALSE)

\* _handleUnlockStateChanged (isUnlocked)
_handleUnlockStateChanged(c, unlocked) ==
    IF TypeOf(unlocked) # "boolean"
    THEN c
    ELSE IF ~StrictEq(unlocked, c.isUnlocked)
         THEN LET c1 == [c EXCEPT !.isUnlocked = unlocked]
              IN  IF Truthy(unlocked)
                  THEN LET c2 == _rpcRequest(c1,
                                     Obj([method |-> Str(eth_accounts), params |-> Arr(<<>>)]),
                                     NOOP, TRUE)
                       IN  [c2 EXCEPT !.thrown = "none"]  \* try { } catch (_) { }
                  ELSE _handleAccountsChanged(c1, Arr(<<>>), FALSE, FALSE)
         ELSE c

(***************************************************************************)
(* Callbacks and futures.  A run notes what the application is handed      *)
(* (a callback call, a resolved or rejected future) in the trace, after    *)
(* the events emitted before it.                                           *)
(***************************************************************************)
note(c, what, arg) ==
    [c EXCEPT !.trace = Append(@, [event |-> what, arg |-> arg, at |-> Fields(c)])]

\* utils.getRpcPromiseCallback(resolve, reject, unwrapResult = true), for the
\* future of `owner`: the application ("caller") or the constructor
getRpcPromiseCallback(owner, unwrapResult) ==
    [t |-> "function", name |-> "rpcPromiseCallback", owner |-> owner,
     unwrapResult |-> unwrapResult]

\* the constructor's .then that applies the unlock state before the accounts
getInitialStateUnlockFirst(c, state) ==
    IF state.t \in {"null", "undefined"}
    THEN c
    ELSE LET c1 == _handleChainChanged(c,
                       Obj([chainId |-> Prop(state, "chainId"),
                            networkVersion |-> Prop(state, "networkVersion")]))
             c2 == _handleUnlockStateChanged(c1, Prop(state, "isUnlocked"))
             c3 == _handleAccountsChanged(c2, Prop(state, "accounts"), FALSE, FALSE)
         IN  emit(c3, "connect", Obj([chainId |-> c3.chainId]))

\* the constructor's .then((state) => ...): a TypeError from destructuring a
\* null or undefined state goes to its .catch, which logs it
getInitialState(c, state) ==
    IF state.t \in {"null", "undefined"}
    THEN c
    ELSE LET c1 == _handleChainChanged(c,
                       Obj([chainId |-> Prop(state, "chainId"),
                            networkVersion |-> Prop(state, "networkVersion")]))
             c2 == _handleAccountsChanged(c1, Prop(state, "accounts"), FALSE, FALSE)
             c3 == _handleUnlockStateChanged(c2, Prop(state, "isUnlocked"))
         IN  emit(c3, "connect", Obj([chainId |-> c3.chainId]))

\* the constructor's .catch that signals connect all the same
getInitialStateFailedConnects(c, error) ==
    emit(c, "connect", Obj([chainId |-> c.chainId]))

\* the constructor's .catch((error) => log.error(...)): logs, nothing else
getInitialStateFailed(c, error) == c

\* the function getRpcPromiseCallback returns, called with (error, response)
rpcPromiseCallback(c, cb, err, res) ==
    IF Truthy(err) \/ Truthy(Prop(res, "error"))
    THEN IF cb.owner = "constructor"
         THEN getInitialStateFailed(c, Or(err, Prop(res, "error")))
         ELSE note(c, "reject", Or(err, Prop(res, "error")))
    ELSE LET value == IF ~cb.unwrapResult \/ IsArray(res) THEN res
                      ELSE Prop(res, "result")
         IN  IF cb.owner = "constructor"
             THEN getInitialState(c, value)
             ELSE note(c, "resolve", value)

\* callback(err, res), for the callbacks a caller of _rpcRequest passes
callback(c, cb, err, res) ==
    CASE cb.name = "NOOP" -> c
      [] cb.name = "rpcPromiseCallback" -> rpcPromiseCallback(c, cb, err, res)
      [] OTHER -> note(c, "callback", [err |-> err, res |-> res])

\* cb that hands the response to the caller before it updates the accounts
cbCallbackFirst(c, f, err, res) ==
    IF f.name = "accountsCallback"
    THEN IF res.t \in {"null", "undefined"}
         THEN Throw(c, "TypeError")
         ELSE _handleAccountsChanged(callback(c, f.callback, err, res),
                                     Or(Prop(res, "result"), Arr(<<>>)),
                                     f.isEthAccounts, f.isInternal)
    ELSE callback(c, f, err, res)

\* cb that updates the accounts only when the response carries no error
cbOnSuccessOnly(c, f, err, res) ==
    IF f.name = "accountsCallback"
    THEN IF res.t \in {"null", "undefined"}
         THEN Throw(c, "TypeError")
         ELSE IF Truthy(err) \/ Truthy(Prop(res, "error"))
         THEN callback(c, f.callback, err, res)
         ELSE callback(
                  _handleAccountsChanged(c, Or(Prop(res, "result"), Arr(<<>>)),
                                         f.isEthAccounts, f.isInternal),
                  f.callback, err, res)
    ELSE callback(c, f, err, res)

\* cb(err, res), as the RPC engine calls it when the response arrives: the
\* callback _rpcRequest passed on, or the one it substituted
cb(c, f, err, res) ==
    IF f.name = "accountsCallback"
    THEN IF res.t \in {"null", "undefined"}
         THEN Throw(c, "TypeError")
         ELSE callback(
                  _handleAccountsChanged(c, Or(Prop(res, "result"), Arr(<<>>)),
                                         f.isEthAccounts, f.isInternal),
                  f.callback, err, res)
    ELSE callback(c, f, err, res)

(***************************************************************************)
(* Public methods.  Each returns the provider after the call, with `ret`   *)
(* the call's outcome.                                                     *)
(***************************************************************************)
return(c, value) ==
    IF c.thrown = "none"
    THEN [c EXCEPT !.ret = [kind |-> "return", value |-> value]]
    ELSE c

\* the future a method returns: pending, or already rejected
promise(c) ==
    IF c.thrown = "none"
    THEN [c EXCEPT !.ret = [kind |-> "promise"]]
    ELSE [c EXCEPT !.ret = [kind |-> "rejected", error |-> c.thrown, data |-> Undefined],
                   !.thrown = "none"]

\* throw ethErrors.rpc.invalidRequest({ message, data }) in an async function
invalidRequest(c, data) ==
    [c EXCEPT !.ret = [kind |-> "rejected", error |-> "invalidRequest", data |-> data]]

\* async request (args)
request(c, args) ==
    IF TypeOf(args) # "object" \/ IsArray(args)
    THEN invalidRequest(c, args)
    ELSE IF args = Null
         THEN promise(Throw(c, "TypeError"))  \* const { method, params } = args
         ELSE LET method == Prop(args, "method")
                  params == Prop(args, "params")
              IN  IF TypeOf(method) # "string" \/ ~Truthy(method)
                  THEN invalidRequest(c, args)
                  ELSE promise(_rpcRequest(c,
                                   Obj([method |-> method, params |-> params]),
                                   getRpcPromiseCallback("caller", TRUE), FALSE))

\* sendAsync (payload, cb)
sendAsync(c, payload, f) ==
    return(_rpcRequest(c, payload, f, FALSE), Undefined)

\* enable ()
enable(c) ==
    promise(_rpcRequest(c,
                Obj([method |-> Str(eth_requestAccounts), params |-> Arr(<<>>)]),
                getRpcPromiseCallback("caller", TRUE), FALSE))

\* _metamask.requestBatch (requests)
requestBatch(c, requests) ==
    IF ~IsArray(requests)
    THEN invalidRequest(c, requests)
    ELSE promise(_rpcRequest(c, requests, getRpcPromiseCallback("caller", TRUE), FALSE))

\* _sendSync that answers eth_accounts with the stored accounts
_sendSyncStoredAccounts(c, payload) ==
    LET m == Prop(payload, "method")
        reply(d, p, result) ==
            return(d, Obj([id |-> Prop(p, "id"), jsonrpc |-> Prop(p, "jsonrpc"),
                           result |-> result]))
    IN  IF payload.t \in {"null", "undefined"}
        THEN Throw(c, "TypeError")
        ELSE CASE StrictEq(m, Str(eth_accounts)) ->
                    reply(c, payload, Or(c.accounts, Arr(<<>>)))
               [] StrictEq(m, Str(eth_coinbase)) ->
                    reply(c, payload, Or(c.selectedAddress, Null))
               [] StrictEq(m, Str(eth_uninstallFilter)) ->
                    LET c1 == _rpcRequest(c, payload, NOOP, FALSE)
                    IN  reply(c1, c1.out[Len(c1.out)].payload, Bool(TRUE))
               [] StrictEq(m, Str(net_version)) ->
                    reply(c, payload, Or(c.networkVersion, Null))
               [] OTHER -> Throw(c, "unsupportedSync")

\* _sendSync that forwards every method it does not emulate, as it does
\* eth_uninstallFilter
_sendSyncForwardOthers(c, payload) ==
    LET m == Prop(payload, "method")
        reply(d, p, result) ==
            return(d, Obj([id |-> Prop(p, "id"), jsonrpc |-> Prop(p, "jsonrpc"),
                           result |-> result]))
    IN  IF payload.t \in {"null", "undefined"}
        THEN Throw(c, "TypeError")
        ELSE CASE StrictEq(m, Str(eth_accounts)) ->
                    reply(c, payload,
                          IF Truthy(c.selectedAddress) THEN Arr(<<c.selectedAddress>>)
                          ELSE Arr(<<>>))
               [] StrictEq(m, Str(eth_coinbase)) ->
                    reply(c, payload, Or(c.selectedAddress, Null))
               [] StrictEq(m, Str(net_version)) ->
                    reply(c, payload, Or(c.networkVersion, Null))
               [] OTHER ->
                    LET c1 == _rpcRequest(c, payload, NOOP, FALSE)
                    IN  reply(c1, c1.out[Len(c1.out)].payload, Bool(TRUE))

\* _sendSync (payload)
_sendSync(c, payload) ==
    LET m == Prop(payload, "method")
        reply(d, p, result) ==
            return(d, Obj([id |-> Prop(p, "id"), jsonrpc |-> Prop(p, "jsonrpc"),
                           result |-> result]))
    IN  IF payload.t \in {"null", "undefined"}
        THEN Throw(c, "TypeError")
        ELSE CASE StrictEq(m, Str(eth_accounts)) ->
                    reply(c, payload,
                          IF Truthy(c.selectedAddress) THEN Arr(<<c.selectedAddress>>)
                          ELSE Arr(<<>>))
               [] StrictEq(m, Str(eth_coinbase)) ->
                    reply(c, payload, Or(c.selectedAddress, Null))
               [] StrictEq(m, Str(eth_uninstallFilter)) ->
                    LET c1 == _rpcRequest(c, payload, NOOP, FALSE)
                    IN  \* _rpcRequest has set payload.jsonrpc
                        reply(c1, c1.out[Len(c1.out)].payload, Bool(TRUE))
               [] StrictEq(m, Str(net_version)) ->
                    reply(c, payload, Or(c.networkVersion, Null))
               [] OTHER -> Throw(c, "unsupportedSync")

\* send (methodOrPayload, callbackOrArgs)
send(c, methodOrPayload, callbackOrArgs) ==
    IF /\ TypeOf(methodOrPayload) = "string"
       /\ (~Truthy(callbackOrArgs) \/ IsArray(callbackOrArgs))
    THEN promise(_rpcRequest(c,
                     Obj([method |-> methodOrPayload, params |-> callbackOrArgs]),
                     getRpcPromiseCallback("caller", FALSE), FALSE))
    ELSE IF TypeOf(methodOrPayload) = "object" /\ TypeOf(callbackOrArgs) = "function"
         THEN return(_rpcRequest(c, methodOrPayload, callbackOrArgs, FALSE), Undefined)
         ELSE _sendSync(c, methodOrPayload)

\* the notification handler without the allow-list: every notification that
\* is not one of the three wallet_ ones becomes a message event
onNotificationEmitAll(c, payload) ==
    LET m == Prop(payload, "method")
    IN  IF StrictEq(m, Str(wallet_accountsChanged))
        THEN _handleAccountsChanged(c, Prop(payload, "result"), FALSE, FALSE)
        ELSE IF StrictEq(m, Str(wallet_unlockStateChanged))
        THEN _handleUnlockStateChanged(c, Prop(payload, "result"))
        ELSE IF StrictEq(m, Str(wallet_chainChanged))
        THEN _handleChainChanged(c, Prop(payload, "result"))
        ELSE emit(emit(c, "notification", payload), "message",
                  Obj([type |-> m, data |-> Prop(payload, "params")]))

\* jsonRpcConnection.events.on('notification', (payload) => ...)
onNotification(c, payload) ==
    LET m == Prop(payload, "method")
    IN  IF StrictEq(m, Str(wallet_accountsChanged))
        THEN _handleAccountsChanged(c, Prop(payload, "result"), FALSE, FALSE)
        ELSE IF StrictEq(m, Str(wallet_unlockStateChanged))
        THEN _handleUnlockStateChanged(c, Prop(payload, "result"))
        ELSE IF StrictEq(m, Str(wallet_chainChanged))
        THEN _handleChainChanged(c, Prop(payload, "result"))
        ELSE IF m.t = "string" /\ m.v \in EMITTED_NOTIFICATIONS
        THEN emit(emit(c, "notification", payload), "message",
                  Obj([type |-> m, data |-> Prop(payload, "params")]))
        ELSE c

\* constructor: the fields' defaults, then
\* this.request({ method: 'wallet_getProviderState' }).then(...).catch(...)
constructor ==
    LET c0 == [chainId |-> Null, networkVersion |-> Null, selectedAddress |-> Null,
               accounts |-> Null, isUnlocked |-> Bool(FALSE), isConnected |-> Null,
               trace |-> <<>>, out |-> <<>>, thrown |-> "none",
               ret |-> [kind |-> "none"]]
        c1 == request(c0, Obj([method |-> Str(wallet_getProviderState)]))
    IN  [c1 EXCEPT !.out = [i \in DOMAIN @ |-> [@[i] EXCEPT !.cb.owner = "constructor"]],
                   !.ret = [kind |-> "none"]]

(***************************************************************************)
(* What the application and the backend may hand the provider.             *)
(***************************************************************************)
SeqsUpTo(S, n) == UNION {[1..k -> S] : k \in 0..n}

addr == <<"0", "x", "a">>
\* array elements: an address, and a string that is not one
AccountElems == {Str(addr), Str(<<>>)}
AccountArrays == {Arr(a) : a \in SeqsUpTo(AccountElems, MaxAccounts)}
AccountsPayloads == AccountArrays \cup {Undefined, Str(addr)}

\* valid pairs that differ in the chain id only, in the network version only,
\* or in both, and the shapes _handleChainChanged rejects
ValidChains ==
    {Obj([chainId |-> Str(<<"0", "x", "1">>), networkVersion |-> Str(<<"1">>)]),
     Obj([chainId |-> Str(<<"0", "x", "2">>), networkVersion |-> Str(<<"1">>)]),
     Obj([chainId |-> Str(<<"0", "x", "1">>), networkVersion |-> Str(<<>>)])}
ChainPayloads ==
    ValidChains
    \cup {Obj([chainId |-> Str(<<"1">>), networkVersion |-> Str(<<"1">>)]),
          Obj([chainId |-> Str(<<"0", "x", "1">>)]),
          Obj([chainId |-> Str(<<"0", "x", "2">>), networkVersion |-> Num(1)]),
          Undefined, Null}

UnlockPayloads == {Bool(TRUE), Bool(FALSE), Str(<<"t", "r", "u", "e">>)}

Notifications ==
    {Obj([method |-> Str(wallet_accountsChanged), result |-> r]) : r \in AccountsPayloads}
    \cup {Obj([method |-> Str(wallet_unlockStateChanged), result |-> r]) : r \in UnlockPayloads}
    \cup {Obj([method |-> Str(wallet_chainChanged), result |-> r]) : r \in ChainPayloads}
    \cup {Obj([method |-> Str(eth_subscription),
               params |-> Obj([subscription |-> Str(<<"0", "x", "1">>)])]),
          Obj([method |-> Str(<<"x">>), params |-> Arr(<<>>)])}

RequestArgs ==
    {Obj([method |-> Str(eth_requestAccounts), params |-> Arr(<<>>)]),
     Obj([method |-> Str(eth_coinbase), params |-> Arr(<<>>)]),
     Arr(<<>>), Arr(<<Obj([method |-> Str(eth_accounts)])>>),
     Undefined, Null, Str(eth_accounts),
     Obj(<<>>), Obj([method |-> Str(<<>>)]), Obj([method |-> Num(1)])}

batch == Arr(<<Obj([method |-> Str(eth_accounts)]),
               Obj([method |-> Str(eth_requestAccounts)])>>)
BatchArgs == {batch, Obj([method |-> Str(eth_accounts)])}

AsyncPayloads == {batch, Null}

SyncMethods ==
    {eth_accounts, eth_coinbase, eth_uninstallFilter, net_version, eth_requestAccounts}
SendArgs ==
    {<<Obj([method |-> Str(eth_accounts)]), Fn("callback")>>,
     <<batch, Fn("callback")>>,
     <<Obj([id |-> Num(1)]), Undefined>>, <<Null, Undefined>>}
    \cup {<<Obj([method |-> Str(m), id |-> Num(1)]), Undefined>> : m \in SyncMethods}

StreamNames == {"MetaMask", "MetaMask RpcProvider"}

rpcError == Obj([message |-> Str(<<"e">>)])
failure == <<rpcError, Obj([error |-> rpcError])>>

ProviderStates ==
    {Obj([chainId |-> Prop(n, "chainId"), networkVersion |-> Prop(n, "networkVersion"),
          isUnlocked |-> u, accounts |-> a]) :
        n \in {Obj([chainId |-> Str(<<"0", "x", "1">>), networkVersion |-> Str(<<"1">>)]),
               Obj([chainId |-> Str(<<"1">>), networkVersion |-> Str(<<"1">>)])},
        u \in {Bool(TRUE), Bool(FALSE), Undefined},
        a \in {Arr(<<Str(addr)>>), Undefined}}
    \cup {Null, Str(<<>>)}

\* the responses the backend may give to a request in flight
Responses(r) ==
    IF IsArray(r.payload)
    THEN {<<Null, Arr([i \in DOMAIN r.payload.v |-> Obj([result |-> Arr(<<Str(addr)>>)])])>>,
          failure}
    ELSE LET m == Prop(r.payload, "method")
         IN  IF m = Str(wallet_getProviderState)
             THEN {<<Null, Obj([result |-> st])>> : st \in ProviderStates} \cup {failure}
             ELSE IF m \in {Str(eth_accounts), Str(eth_requestAccounts)}
             THEN {<<Null, Obj([result |-> a])>> : a \in AccountsPayloads} \cup {failure}
             ELSE {<<Null, Obj([result |-> Str(addr)])>>, failure}

(***************************************************************************)
(* The state machine.                                                      *)
(***************************************************************************)
RECURSIVE BagOf(_)
BagOf(q) == IF q = <<>> THEN EmptyBag ELSE SetToBag({Head(q)}) (+) BagOf(Tail(q))

\* the names of the events a run emitted and of what it handed the
\* application, in order
Names(trace) == [i \in DOMAIN trace |-> trace[i].event]

\* how many times a run emitted `name`
Count(trace, name) == Cardinality({i \in DOMAIN trace : trace[i].event = name})

\* the requests of a run that the constructor's own future waits for
Bootstraps(out) ==
    Cardinality({i \in DOMAIN out :
                    out[i].cb.name = "rpcPromiseCallback" /\ out[i].cb.owner = "constructor"})

\* requests in flight besides the constructor's
InFlight(bag) ==
    BagCardinality(bag)
    - Cardinality({r \in BagToSet(bag) :
                      r.cb.name = "rpcPromiseCallback" /\ r.cb.owner = "constructor"})

idle == [op |-> "idle"]

\* the run that just ended becomes the state: the fields, the requests now in
\* flight, and what the run did
Commit(op, arg, answered, c) ==
    /\ last = idle
    /\ chainId' = c.chainId
    /\ networkVersion' = c.networkVersion
    /\ selectedAddress' = c.selectedAddress
    /\ accounts' = c.accounts
    /\ isUnlocked' = c.isUnlocked
    /\ isConnected' = c.isConnected
    /\ pending' = (pending (-) answered) (+) BagOf(c.out)
    /\ InFlight(pending') <= MaxPending
    /\ last' = [op |-> op, arg |-> arg, pre |-> Fields(Cur), trace |-> c.trace,
                out |-> c.out, ret |-> c.ret, thrown |-> c.thrown]
    /\ counts' = [connect |-> counts.connect + Count(c.trace, "connect"),
                  disconnect |-> counts.disconnect + Count(c.trace, "disconnect"),
                  bootstrap |-> counts.bootstrap + Bootstraps(c.out)]

\* the backend when the provider is constructed: unlocked, exposing one account
backend0 ==
    [chainId |-> Str(<<"0", "x", "1">>), networkVersion |-> Str(<<"1">>),
     accounts |-> Arr(<<Str(addr)>>), isUnlocked |-> Bool(TRUE), produced |-> 0]

\* a step of the provider or the application that the backend has no part in
Detached == UNCHANGED <<backend, wire>>

Init ==
    /\ chainId = constructor.chainId
    /\ networkVersion = constructor.networkVersion
    /\ selectedAddress = constructor.selectedAddress
    /\ accounts = constructor.accounts
    /\ isUnlocked = constructor.isUnlocked
    /\ isConnected = constructor.isConnected
    /\ pending = BagOf(constructor.out)
    /\ last = [op |-> "constructor", arg |-> Undefined, pre |-> Fields(constructor),
               trace |-> constructor.trace, out |-> constructor.out,
               ret |-> constructor.ret, thrown |-> constructor.thrown]
    /\ counts = [connect |-> Count(constructor.trace, "connect"),
                 disconnect |-> Count(constructor.trace, "disconnect"),
                 bootstrap |-> Bootstraps(constructor.out)]
    /\ backend = backend0
    /\ wire = {}

\* the run has ended and the event loop waits for the next task
Idle ==
    /\ last # idle
    /\ last' = idle
    /\ UNCHANGED <<chainId, networkVersion, selectedAddress, accounts, isUnlocked,
                   isConnected, pending, counts>>
    /\ Detached

\* the application calls ethereum.request(args)
Request ==
    /\ \E args \in RequestArgs : Commit("request", args, EmptyBag, request(Cur, args))
    /\ Detached

\* the application calls ethereum.sendAsync(payload, cb)
SendAsync ==
    /\ \E payload \in AsyncPayloads :
           Commit("sendAsync", payload, EmptyBag, sendAsync(Cur, payload, Fn("callback")))
    /\ Detached

\* the application calls ethereum.enable()
Enable ==
    /\ Commit("enable", Undefined, EmptyBag, enable(Cur))
    /\ Detached

\* the application calls ethereum._metamask.requestBatch(requests)
RequestBatch ==
    /\ \E requests \in BatchArgs :
           Commit("requestBatch", requests, EmptyBag, requestBatch(Cur, requests))
    /\ Detached

\* the application calls ethereum.send(methodOrPayload, callbackOrArgs)
Send ==
    /\ \E a \in SendArgs : Commit("send", a, EmptyBag, send(Cur, a[1], a[2]))
    /\ Detached

\* the backend pushes a notification
Notification ==
    /\ \E payload \in Notifications :
           Commit("notification", payload, EmptyBag, onNotification(Cur, payload))
    /\ Detached

\* the response to a request in flight arrives
Response ==
    /\ \E r \in BagToSet(pending) : \E a \in Responses(r) :
           Commit("response", [request |-> r, err |-> a[1], res |-> a[2]],
                  SetToBag({r}), cb(Cur, r.cb, a[1], a[2]))
    /\ Detached

\* one of the two pumped streams ends
Disconnect ==
    /\ \E streamName \in StreamNames :
           Commit("disconnect", streamName, EmptyBag, _handleDisconnect(Cur, streamName))
    /\ Detached

Next ==
    \/ Request
    \/ SendAsync
    \/ Enable
    \/ RequestBatch
    \/ Send
    \/ Notification
    \/ Response
    \/ Disconnect
    \/ Idle

Spec == Init /\ [][Next]_vars

(***************************************************************************)
(* The provider with its backend followed.  In Spec any notification and   *)
(* any answer may arrive.  Here the backend holds values, changes them,    *)
(* pushes a notification for each change and answers each request from the *)
(* values it holds when it answers; the transport delivers what the        *)
(* backend produced in any order.  The application asks for the accounts.  *)
(***************************************************************************)
Produce(b, message) ==
    /\ last = idle
    /\ backend.produced < MaxProduced
    /\ backend' = [b EXCEPT !.produced = backend.produced + 1]
    /\ wire' = wire \cup {[n |-> backend.produced + 1] @@ message}
    /\ UNCHANGED <<chainId, networkVersion, selectedAddress, accounts, isUnlocked,
                   isConnected, pending, last, counts>>

\* the exposed accounts change
BackendSetAccounts ==
    \E a \in {Arr(<<>>), Arr(<<Str(addr)>>)} :
        /\ backend.isUnlocked = Bool(TRUE)
        /\ a # backend.accounts
        /\ Produce([backend EXCEPT !.accounts = a],
                   [kind |-> "notification",
                    payload |-> Obj([method |-> Str(wallet_accountsChanged), result |-> a])])

\* the wallet is locked, which hides the accounts, or unlocked
BackendSetUnlocked ==
    \E u \in {Bool(TRUE), Bool(FALSE)} :
        /\ u # backend.isUnlocked
        /\ Produce([backend EXCEPT !.isUnlocked = u, !.accounts = Arr(<<>>)],
                   [kind |-> "notification",
                    payload |-> Obj([method |-> Str(wallet_unlockStateChanged), result |-> u])])

\* what the backend answers now to the request r
Answer(r) ==
    IF Prop(r.payload, "method") = Str(wallet_getProviderState)
    THEN Obj([result |-> Obj([chainId |-> backend.chainId,
                              networkVersion |-> backend.networkVersion,
                              isUnlocked |-> backend.isUnlocked,
                              accounts |-> backend.accounts])])
    ELSE Obj([result |-> backend.accounts])

\* the backend answers a request it has not answered yet
BackendAnswer ==
    \E r \in BagToSet(pending) :
        /\ \A m \in wire : m.kind = "response" => m.request # r
        /\ Produce(backend, [kind |-> "response", request |-> r, res |-> Answer(r)])

\* the transport delivers one of the messages on the wire, whichever
Deliver ==
    \E m \in wire :
        /\ IF m.kind = "notification"
           THEN Commit("notification", m.payload, EmptyBag, onNotification(Cur, m.payload))
           ELSE Commit("response", [request |-> m.request, err |-> Null, res |-> m.res],
                       SetToBag({m.request}), cb(Cur, m.request.cb, Null, m.res))
        /\ wire' = wire \ {m}
        /\ UNCHANGED backend

NextBackend ==
    \/ BackendSetAccounts
    \/ BackendSetUnlocked
    \/ BackendAnswer
    \/ Deliver
    \/ Enable
    \/ Idle

SpecBackend == Init /\ [][NextBackend]_vars

(***************************************************************************)
(* Vocabulary of the properties.  They read the record of the run that has *)
(* just ended (last), the fields before it (last.pre) and the fields now.  *)
(***************************************************************************)
Ran(op) == last # idle /\ last.op = op

\* the run handled the notification `method`
Notified(method) ==
    Ran("notification") /\ Prop(last.arg, "method") = Str(method)

\* the run handled the answer to the constructor's wallet_getProviderState
BootstrapAnswered ==
    /\ Ran("response")
    /\ last.arg.request.cb.name = "rpcPromiseCallback"
    /\ last.arg.request.cb.owner = "constructor"

\* the answer the run handled carries no error
Succeeded == ~Truthy(last.arg.err) /\ ~Truthy(Prop(last.arg.res, "error"))

\* the run handled the answer to one eth_accounts or eth_requestAccounts
\* request, not a batch
AccountsAnswered ==
    /\ Ran("response")
    /\ ~IsArray(last.arg.request.payload)
    /\ Prop(last.arg.request.payload, "method")
           \in {Str(eth_accounts), Str(eth_requestAccounts)}

\* the events named in `names` that the run emitted, in order, without the
\* fields seen at each
Emitted(names) ==
    LET picked == SelectSeq(last.trace, LAMBDA e : e.event \in names)
    IN  [i \in DOMAIN picked |-> [event |-> picked[i].event, arg |-> picked[i].arg]]

ChainEvents == {"chainChanged", "chainIdChanged", "networkChanged"}

\* the fields did not change in the run
FieldsUnchanged == Fields(Cur) = last.pre

\* a chain payload the spec calls valid
ValidChain(p) ==
    /\ p.t = "object"
    /\ Prop(p, "chainId").t = "string"
    /\ Len(Prop(p, "chainId").v) >= 2
    /\ Prop(p, "chainId").v[1] = "0" /\ Prop(p, "chainId").v[2] = "x"
    /\ Prop(p, "networkVersion").t = "string"

\* the sequence an accounts payload stands for: itself, or the empty one
Effective(p) == IF p.t = "array" THEN p ELSE Arr(<<>>)

\* same elements in the same order
SameSequence(a, b) == a.t = "array" /\ b.t = "array" /\ a.v = b.v

\* the first element of a sequence if it is a non-empty string, else null
Primary(a) ==
    IF a.t = "array" /\ Len(a.v) > 0 /\ a.v[1].t = "string" /\ a.v[1].v # <<>>
    THEN a.v[1] ELSE Null

(***************************************************************************)
(* C1 as stated: between runs selectedAddress is the first element of the  *)
(* stored accounts when they are a non-empty sequence, and null otherwise. *)
(* The code stores accounts[0] || null, so a first element that is falsy   *)
(* (here the empty string) leaves selectedAddress null.                    *)
(***************************************************************************)
C1_SelectedIsFirstAccount ==
    selectedAddress =
        IF accounts.t = "array" /\ Len(accounts.v) > 0 THEN accounts.v[1] ELSE Null

\* C1, amended: selectedAddress is the first element of the stored accounts
\* when that element is a non-empty string, null otherwise (accounts null,
\* empty, or starting with a falsy element); and a run changes
\* selectedAddress only by running the accounts transition: on a
\* wallet_accountsChanged or wallet_unlockStateChanged notification, on the
\* answer to an eth_accounts / eth_requestAccounts request, or on bootstrap
C1_SelectedIsPrimary ==
    /\ selectedAddress = Primary(accounts)
    /\ (last # idle /\ last.pre.selectedAddress # selectedAddress) =>
           \/ Notified(wallet_accountsChanged)
           \/ Notified(wallet_unlockStateChanged)
           \/ AccountsAnswered
           \/ BootstrapAnswered

\* C1 witness: an accounts notification has replaced a two-element sequence
\* whose first element was the address by one that starts with the empty
\* string, and selectedAddress went from the address to null
C1_Witness ==
    /\ Notified(wallet_accountsChanged)
    /\ last.pre.selectedAddress = Str(addr)
    /\ accounts = Arr(<<Str(<<>>), Str(addr)>>)
    /\ selectedAddress = Null

(***************************************************************************)
(* C2: a valid (chainId, networkVersion) pair applied by the chain         *)
(* transition (a wallet_chainChanged notification, or the bootstrap        *)
(* answer) emits chainChanged, chainIdChanged and networkChanged exactly   *)
(* when the chain id or the network version differs from the stored one;   *)
(* afterwards the pair is stored, so applying it again emits nothing.      *)
(***************************************************************************)
AppliedChain ==
    IF Notified(wallet_chainChanged) THEN Prop(last.arg, "result")
    ELSE IF BootstrapAnswered /\ Succeeded
              /\ Prop(last.arg.res, "result").t = "object"
         THEN Prop(last.arg.res, "result")
         ELSE Undefined

C2_ChainEventsIffChanged ==
    ValidChain(AppliedChain) =>
        LET i == Prop(AppliedChain, "chainId")
            n == Prop(AppliedChain, "networkVersion")
        IN  /\ Emitted(ChainEvents) =
                   IF i # last.pre.chainId \/ n # last.pre.networkVersion
                   THEN <<[event |-> "chainChanged", arg |-> i],
                          [event |-> "chainIdChanged", arg |-> i],
                          [event |-> "networkChanged", arg |-> n]>>
                   ELSE <<>>
            /\ chainId = i /\ networkVersion = n
            /\ _handleChainChanged(Cur, AppliedChain).trace = <<>>

\* C2 witness: the same valid pair arrived a second time, differing from the
\* stored pair in nothing, and the run emitted nothing
C2_Witness ==
    /\ Notified(wallet_chainChanged)
    /\ ValidChain(AppliedChain)
    /\ last.pre.chainId = Prop(AppliedChain, "chainId")
    /\ last.pre.networkVersion = Prop(AppliedChain, "networkVersion")
    /\ last.trace = <<>>

(***************************************************************************)
(* C3: the accounts transition, given a payload by a wallet_accountsChanged*)
(* notification or by the answer to an eth_accounts / eth_requestAccounts  *)
(* request, emits accountsChanged exactly when the effective sequence (the *)
(* payload, or the empty sequence for a payload that is not an array) is   *)
(* not the stored one element for element; the event carries the effective *)
(* sequence, and afterwards the stored accounts are the effective sequence.*)
(***************************************************************************)
AppliedAccounts ==
    IF Notified(wallet_accountsChanged) THEN Prop(last.arg, "result")
    ELSE Or(Prop(last.arg.res, "result"), Arr(<<>>))

C3_AccountsChangedIffDifferent ==
    (Notified(wallet_accountsChanged) \/ AccountsAnswered) =>
        LET eff == Effective(AppliedAccounts)
        IN  /\ Emitted({"accountsChanged"}) =
                   IF SameSequence(last.pre.accounts, eff) THEN <<>>
                   ELSE <<[event |-> "accountsChanged", arg |-> eff]>>
            /\ SameSequence(accounts, eff)

\* C3 witness: a two-element sequence was replaced by an equal one, and no
\* event was emitted
C3_Witness ==
    /\ Notified(wallet_accountsChanged)
    /\ AppliedAccounts = Arr(<<Str(addr), Str(<<>>)>>)
    /\ last.pre.accounts = Arr(<<Str(addr), Str(<<>>)>>)
    /\ last.trace = <<>>

(***************************************************************************)
(* C4: when a wallet_unlockStateChanged notification or the bootstrap      *)
(* answer moves isUnlocked from true to false, the run ends with accounts  *)
(* the empty sequence and selectedAddress null, and it has emitted         *)
(* accountsChanged([]) if the accounts were a non-empty sequence before.   *)
(***************************************************************************)
Locked ==
    /\ Notified(wallet_unlockStateChanged) \/ BootstrapAnswered
    /\ last.pre.isUnlocked = Bool(TRUE)
    /\ isUnlocked = Bool(FALSE)

C4_LockClearsAccounts ==
    Locked =>
        /\ accounts = Arr(<<>>)
        /\ selectedAddress = Null
        /\ (last.pre.accounts.t = "array" /\ last.pre.accounts.v # <<>>) =>
               [event |-> "accountsChanged", arg |-> Arr(<<>>)]
                   \in {Emitted({"accountsChanged"})[i] :
                           i \in DOMAIN Emitted({"accountsChanged"})}

\* C4 witness: a lock notification arrived while accounts were exposed
C4_Witness ==
    /\ Notified(wallet_unlockStateChanged)
    /\ Locked
    /\ last.pre.accounts = Arr(<<Str(addr)>>)
    /\ Emitted({"accountsChanged"}) = <<[event |-> "accountsChanged", arg |-> Arr(<<>>)]>>

(***************************************************************************)
(* More vocabulary: the events a provider emits, the provider as it was    *)
(* before the run, and the synchronous form of send.                       *)
(***************************************************************************)
Events ==
    {"chainChanged", "chainIdChanged", "networkChanged", "accountsChanged",
     "connect", "disconnect", "close", "notification", "message"}

\* the provider as the run found it
Before ==
    [chainId |-> last.pre.chainId, networkVersion |-> last.pre.networkVersion,
     selectedAddress |-> last.pre.selectedAddress, accounts |-> last.pre.accounts,
     isUnlocked |-> last.pre.isUnlocked, isConnected |-> last.pre.isConnected,
     trace |-> <<>>, out |-> <<>>, thrown |-> "none", ret |-> [kind |-> "none"]]

\* the run did what `c` does: same events, same requests, same fields after
DidAs(c) ==
    /\ last.trace = c.trace
    /\ last.out = c.out
    /\ last.thrown = c.thrown
    /\ Fields(Cur) = Fields(c)

\* the run was send(payload) with a payload object and no second argument
SentSync == Ran("send") /\ last.arg[1].t = "object" /\ last.arg[2] = Undefined

\* ... for the method m
SentSyncFor(m) == SentSync /\ Prop(last.arg[1], "method") = Str(m)

\* the call returned a response object whose result is v
Returned(v) ==
    /\ last.thrown = "none"
    /\ last.ret.kind = "return"
    /\ Prop(last.ret.value, "result") = v

(***************************************************************************)
(* C5 as stated: request() rejects with an Invalid-Request error carrying  *)
(* the argument, for an argument that is an array, not an object           *)
(* (a primitive, undefined, null), or an object whose method is missing,   *)
(* not a string or empty; nothing is forwarded and no field changes.       *)
(* For null the code passes the typeof check and fails destructuring it:   *)
(* the future is rejected with a TypeError instead.                        *)
(***************************************************************************)
InvalidArgs(args) ==
    \/ IsArray(args)
    \/ args.t \notin {"object", "array"}
    \/ /\ args.t = "object"
       /\ \/ Prop(args, "method").t # "string"
          \/ Prop(args, "method").v = <<>>

C5_RequestRejectsInvalid ==
    (Ran("request") /\ InvalidArgs(last.arg)) =>
        /\ last.ret = [kind |-> "rejected", error |-> "invalidRequest", data |-> last.arg]
        /\ last.out = <<>>
        /\ FieldsUnchanged

C7_SyncResults ==
    /\ SentSyncFor(eth_accounts) =>
           Returned(IF selectedAddress # Null THEN Arr(<<selectedAddress>>) ELSE Arr(<<>>))
    /\ SentSyncFor(eth_coinbase) => Returned(selectedAddress)
    /\ SentSyncFor(net_version) => Returned(networkVersion)
    /\ SentSyncFor(eth_uninstallFilter) =>
           /\ Returned(Bool(TRUE))
           /\ Len(last.out) = 1
           /\ BagIn(last.out[1], pending)

\* C7, amended: as stated, except that net_version returns the stored
\* networkVersion when it is a non-empty string and null otherwise (null
\* before any chain info was applied, and also after a chain update whose
\* networkVersion is the empty string)
C7_SyncResultsNonEmpty ==
    /\ SentSyncFor(eth_accounts) =>
           Returned(IF selectedAddress # Null THEN Arr(<<selectedAddress>>) ELSE Arr(<<>>))
    /\ SentSyncFor(eth_coinbase) => Returned(selectedAddress)
    /\ SentSyncFor(net_version) =>
           Returned(IF networkVersion.t = "string" /\ networkVersion.v # <<>>
                    THEN networkVersion ELSE Null)
    /\ SentSyncFor(eth_uninstallFilter) =>
           /\ Returned(Bool(TRUE))
           /\ Len(last.out) = 1
           /\ BagIn(last.out[1], pending)

\* C7 witness: net_version was read after a chain update stored the empty
\* network version, and null came back
C7_Witness ==
    /\ SentSyncFor(net_version)
    /\ networkVersion = Str(<<>>)
    /\ chainId = Str(<<"0", "x", "1">>)
    /\ Returned(Null)

(***************************************************************************)
(* C8: send(payload) with a payload object and no callback throws the      *)
(* unsupported-method error, returning nothing, for every method other     *)
(* than eth_accounts, eth_coinbase, eth_uninstallFilter and net_version;   *)
(* it forwards a request only for eth_uninstallFilter; and it changes no   *)
(* field, whatever the method.                                             *)
(***************************************************************************)
C8_SyncUnsupportedThrows ==
    SentSync =>
        LET m == Prop(last.arg[1], "method")
        IN  /\ m \notin {Str(eth_accounts), Str(eth_coinbase),
                         Str(eth_uninstallFilter), Str(net_version)} =>
                   /\ last.thrown = "unsupportedSync"
                   /\ last.ret.kind = "none"
            /\ last.out # <<>> => m = Str(eth_uninstallFilter)
            /\ FieldsUnchanged

\* C8 witness: the synchronous form was used for eth_requestAccounts while
\* an address was selected
C8_Witness ==
    /\ SentSyncFor(eth_requestAccounts)
    /\ last.thrown = "unsupportedSync"
    /\ selectedAddress = Str(addr)

(***************************************************************************)
(* C9: a wallet_accountsChanged, wallet_unlockStateChanged or              *)
(* wallet_chainChanged notification does what the accounts, unlock or      *)
(* chain transition does with its result, and emits no message or          *)
(* notification event; a notification on the allow-list emits the          *)
(* notification event with the payload, then one message event with        *)
(* {type: method, data: params}, and changes no field; any other           *)
(* notification emits nothing, changes nothing and raises no error.        *)
(***************************************************************************)
C9_NotificationRouting ==
    Ran("notification") =>
        LET m == Prop(last.arg, "method")
            result == Prop(last.arg, "result")
        IN  CASE m = Str(wallet_accountsChanged) ->
                   /\ DidAs(_handleAccountsChanged(Before, result, FALSE, FALSE))
                   /\ Emitted({"message", "notification"}) = <<>>
              [] m = Str(wallet_unlockStateChanged) ->
                   /\ DidAs(_handleUnlockStateChanged(Before, result))
                   /\ Emitted({"message", "notification"}) = <<>>
              [] m = Str(wallet_chainChanged) ->
                   /\ DidAs(_handleChainChanged(Before, result))
                   /\ Emitted({"message", "notification"}) = <<>>
              [] m.t = "string" /\ m.v \in EMITTED_NOTIFICATIONS ->
                   /\ Len(last.trace) = 2
                   /\ Emitted(Events) =
                          <<[event |-> "notification", arg |-> last.arg],
                            [event |-> "message",
                             arg |-> Obj([type |-> m, data |-> Prop(last.arg, "params")])]>>
                   /\ FieldsUnchanged
                   /\ last.out = <<>>
                   /\ last.thrown = "none"
              [] OTHER ->
                   /\ last.trace = <<>>
                   /\ FieldsUnchanged
                   /\ last.out = <<>>
                   /\ last.thrown = "none"

\* C9 witness: a notification that is neither a wallet_ one nor on the
\* allow-list arrived at a provider that had state to lose, and was dropped
C9_Witness ==
    /\ Notified(<<"x">>)
    /\ last.trace = <<>>
    /\ accounts = Arr(<<Str(addr)>>)
    /\ chainId = Str(<<"0", "x", "2">>)

(***************************************************************************)
(* C10: the constructor's wallet_getProviderState request is the only one  *)
(* the provider ever issues.  When it is answered without error by a state *)
(* object, the run emits: the three chain events if the state's chain pair *)
(* is valid and differs from the stored one; then accountsChanged if the   *)
(* state's accounts differ from the stored ones; then accountsChanged([])  *)
(* if the state locks a provider that now holds accounts; then connect,    *)
(* once, with the chainId stored at that moment, as the last event.  Each  *)
(* field is applied if valid whatever the others are, and isConnected is   *)
(* true afterwards.  connect is emitted at most once in a lifetime.        *)
(***************************************************************************)
C10_BootstrapOrder ==
    /\ counts.bootstrap = 1
    /\ counts.connect <= 1
    /\ (last # idle /\ last.op # "constructor") =>
           \A i \in DOMAIN last.out :
               Prop(last.out[i].payload, "method") # Str(wallet_getProviderState)
    /\ (/\ BootstrapAnswered
        /\ Succeeded
        /\ Prop(last.arg.res, "result").t = "object") =>
           LET state == Prop(last.arg.res, "result")
               i == Prop(state, "chainId")
               n == Prop(state, "networkVersion")
               eff == Effective(Prop(state, "accounts"))
               u == Prop(state, "isUnlocked")
               chainEvents ==
                   IF /\ ValidChain(state)
                      /\ i # last.pre.chainId \/ n # last.pre.networkVersion
                   THEN <<[event |-> "chainChanged", arg |-> i],
                          [event |-> "chainIdChanged", arg |-> i],
                          [event |-> "networkChanged", arg |-> n]>>
                   ELSE <<>>
               accountsEvents ==
                   IF SameSequence(last.pre.accounts, eff) THEN <<>>
                   ELSE <<[event |-> "accountsChanged", arg |-> eff]>>
               locks == last.pre.isUnlocked = Bool(TRUE) /\ u = Bool(FALSE)
               lockEvents ==
                   IF locks /\ eff.v # <<>>
                   THEN <<[event |-> "accountsChanged", arg |-> Arr(<<>>)]>>
                   ELSE <<>>
           IN  /\ Emitted(Events) =
                      chainEvents \o accountsEvents \o lockEvents
                      \o <<[event |-> "connect", arg |-> Obj([chainId |-> chainId])]>>
               /\ Len(last.trace) = Len(Emitted(Events))
               /\ last.trace[Len(last.trace)].at.isConnected = Bool(TRUE)
               /\ isConnected = Bool(TRUE)
               /\ chainId = IF ValidChain(state) THEN i ELSE last.pre.chainId
               /\ networkVersion = IF ValidChain(state) THEN n ELSE last.pre.networkVersion
               /\ accounts = IF locks THEN Arr(<<>>) ELSE eff
               /\ isUnlocked = IF u.t = "boolean" THEN u ELSE last.pre.isUnlocked

\* C10 witness: the provider state arrived at a provider that a notification
\* had unlocked; it carried an invalid chain id, an account and the locked
\* state, and the run emitted accountsChanged with the account, then
\* accountsChanged([]), then connect with the chainId null
C10_Witness ==
    /\ BootstrapAnswered
    /\ Succeeded
    /\ Names(last.trace) = <<"accountsChanged", "accountsChanged", "connect">>
    /\ last.trace[1].arg = Arr(<<Str(addr)>>)
    /\ last.trace[3].arg = Obj([chainId |-> Null])
    /\ last.pre.isUnlocked = Bool(TRUE)
    /\ isConnected = Bool(TRUE)

(***************************************************************************)
(* C11: when the answer to the constructor's wallet_getProviderState       *)
(* carries an error, the run emits nothing, changes no field (a provider   *)
(* still at its defaults stays at them: the chain, the accounts, the       *)
(* selected address and isConnected null), and forwards nothing: the       *)
(* request is not retried, in that run or ever.  A provider whose          *)
(* bootstrap is over without a connect still applies chain and accounts    *)
(* notifications and still forwards the requests made through request().   *)
(***************************************************************************)
BootstrapFailed == BootstrapAnswered /\ ~Succeeded

\* no answer to the constructor's request is awaited any more
BootstrapOver == BagCardinality(pending) = InFlight(pending)

Defaults ==
    [chainId |-> Null, networkVersion |-> Null, selectedAddress |-> Null,
     accounts |-> Null, isUnlocked |-> Bool(FALSE), isConnected |-> Null]

C11_BootstrapFailureIsSilent ==
    /\ BootstrapFailed =>
           /\ last.trace = <<>>
           /\ last.out = <<>>
           /\ last.thrown = "none"
           /\ FieldsUnchanged
           /\ last.pre = Defaults => Fields(Cur) = Defaults
           /\ counts.connect = 0
           /\ BootstrapOver
    /\ counts.bootstrap = 1
    /\ (BootstrapOver /\ counts.connect = 0) =>
           /\ (Notified(wallet_chainChanged) /\ ValidChain(Prop(last.arg, "result"))) =>
                  /\ chainId = Prop(Prop(last.arg, "result"), "chainId")
                  /\ networkVersion = Prop(Prop(last.arg, "result"), "networkVersion")
           /\ Notified(wallet_accountsChanged) =>
                  SameSequence(accounts, Effective(Prop(last.arg, "result")))
           /\ (Ran("request") /\ ~InvalidArgs(last.arg)) =>
                  /\ last.ret.kind = "promise"
                  /\ Len(last.out) = 1
                  /\ Prop(last.out[1].payload, "method") = Prop(last.arg, "method")

\* C11 witness: the bootstrap request failed at a provider still at its
\* defaults
C11_Witness ==
    /\ BootstrapFailed
    /\ last.pre = Defaults
    /\ Fields(Cur) = Defaults
    /\ last.trace = <<>>

(***************************************************************************)
(* C12: the end of either stream leaves isConnected false.  The run emits  *)
(* disconnect and then close, both with code 1011, if isConnected was true *)
(* when the stream ended, and nothing otherwise; no other run emits them.  *)
(* So a provider has emitted at most as many disconnect events as connect  *)
(* events, and none if it never connected.                                 *)
(***************************************************************************)
C12_DisconnectOncePerConnect ==
    /\ Ran("disconnect") =>
           /\ last.arg \in StreamNames
           /\ isConnected = Bool(FALSE)
           /\ IF last.pre.isConnected = Bool(TRUE)
              THEN /\ Names(last.trace) = <<"disconnect", "close">>
                   /\ Prop(last.trace[1].arg, "code") = Num(1011)
                   /\ last.trace[2].arg = last.trace[1].arg
              ELSE last.trace = <<>>
    /\ (last # idle /\ last.op # "disconnect") => Emitted({"disconnect", "close"}) = <<>>
    /\ counts.disconnect <= counts.connect

\* C12 witness: a stream of a provider that had connected and been
\* disconnected ended, and nothing was emitted the second time
C12_Witness ==
    /\ Ran("disconnect")
    /\ counts.connect = 1
    /\ counts.disconnect = 1
    /\ last.pre.isConnected = Bool(FALSE)
    /\ last.trace = <<>>

(***************************************************************************)
(* C13 as stated: with the backend's messages delivered in any order, once *)
(* every message has been delivered and every request answered, the        *)
(* provider's accounts, chainId, networkVersion and isUnlocked are the     *)
(* backend's.  The provider applies each message as it arrives, so the     *)
(* message delivered last wins, whether or not it was produced last.       *)
(***************************************************************************)
Quiescent == wire = {} /\ pending = EmptyBag /\ backend.produced > 0

C13_ConsistentWhenQuiescent ==
    Quiescent =>
        /\ accounts = backend.accounts
        /\ chainId = backend.chainId
        /\ networkVersion = backend.networkVersion
        /\ isUnlocked = backend.isUnlocked

(***************************************************************************)
(* C14: an array handed to requestBatch, to sendAsync or to send with a    *)
(* callback is forwarded as it is, with the caller's own callback, and the *)
(* run that forwards it emits nothing and changes no field; the run that   *)
(* handles the answer to a batch, successful or not, leaves accounts and   *)
(* selectedAddress alone and emits no accountsChanged, even though the     *)
(* batch holds eth_accounts and eth_requestAccounts entries.               *)
(***************************************************************************)
\* the array the run was asked to submit, or undefined
Submitted ==
    IF Ran("requestBatch") \/ Ran("sendAsync") THEN last.arg
    ELSE IF Ran("send") /\ last.arg[2].t = "function" THEN last.arg[1]
    ELSE Undefined

C14_BatchLeavesAccountsAlone ==
    /\ IsArray(Submitted) =>
           /\ Len(last.out) = 1
           /\ last.out[1].payload = Submitted
           /\ last.out[1].cb.name \in {"callback", "rpcPromiseCallback"}
           /\ last.trace = <<>>
           /\ FieldsUnchanged
    /\ (Ran("response") /\ IsArray(last.arg.request.payload)) =>
           /\ accounts = last.pre.accounts
           /\ selectedAddress = last.pre.selectedAddress
           /\ Emitted(Events) = <<>>
           /\ FieldsUnchanged

\* C14 witness: a batch with eth_accounts and eth_requestAccounts entries
\* was answered with an address in each result while the provider held
\* none, and the caller was handed the answer
C14_Witness ==
    /\ Ran("response")
    /\ last.arg.request.payload = batch
    /\ Succeeded
    /\ last.pre.accounts = Arr(<<>>)
    /\ accounts = Arr(<<>>)
    /\ Len(last.trace) = 1

(***************************************************************************)
(* C15 as stated: whenever an observer can read the provider, between runs *)
(* or inside a listener of an event, the pair (chainId, networkVersion) is *)
(* the whole pair of before the run or the whole pair of after it.  The    *)
(* code emits chainChanged and chainIdChanged after it has assigned        *)
(* chainId and before it assigns networkVersion.                           *)
(***************************************************************************)
C15_ChainPairAtomic ==
    last # idle =>
        \A i \in DOMAIN last.trace :
            <<last.trace[i].at.chainId, last.trace[i].at.networkVersion>>
                \in {<<last.pre.chainId, last.pre.networkVersion>>,
                     <<chainId, networkVersion>>}

(***************************************************************************)
(* C16 as stated: when a listener of accountsChanged(S) runs, the stored   *)
(* accounts are S and selectedAddress is S[0], or null when S has no       *)
(* first address.  The code stores the accounts, emits the event, and only *)
(* then recomputes selectedAddress.                                        *)
(***************************************************************************)
C16_SelectedSetBeforeEvent ==
    last # idle =>
        \A i \in DOMAIN last.trace :
            last.trace[i].event = "accountsChanged" =>
                /\ last.trace[i].at.accounts = last.trace[i].arg
                /\ last.trace[i].at.selectedAddress = Primary(last.trace[i].arg)

(***************************************************************************)
(* C17: a run that changes the stored (chainId, networkVersion) pair, in   *)
(* one field or in both, emits chainChanged(new chainId), then             *)
(* chainIdChanged(new chainId), then networkChanged(new networkVersion),   *)
(* one after the other and each once; a run that leaves the pair as it was *)
(* emits none of the three.                                                *)
(***************************************************************************)
C17_ThreeChainEventsInOrder ==
    last # idle =>
        IF <<chainId, networkVersion>> # <<last.pre.chainId, last.pre.networkVersion>>
        THEN /\ Emitted(ChainEvents) =
                    <<[event |-> "chainChanged", arg |-> chainId],
                      [event |-> "chainIdChanged", arg |-> chainId],
                      [event |-> "networkChanged", arg |-> networkVersion]>>
             /\ \E k \in DOMAIN last.trace :
                    /\ k + 2 \in DOMAIN last.trace
                    /\ Names(SubSeq(last.trace, k, k + 2)) =
                           <<"chainChanged", "chainIdChanged", "networkChanged">>
        ELSE Emitted(ChainEvents) = <<>>

\* C17 witness: a chain notification changed the network version of a
\* provider and kept its chain id, and the three events were emitted
C17_Witness ==
    /\ Notified(wallet_chainChanged)
    /\ last.pre.chainId = Str(<<"0", "x", "1">>)
    /\ last.pre.networkVersion = Str(<<"1">>)
    /\ chainId = Str(<<"0", "x", "1">>)
    /\ networkVersion = Str(<<>>)
    /\ Names(last.trace) = <<"chainChanged", "chainIdChanged", "networkChanged">>

(***************************************************************************)
(* C18 as stated: a wallet_chainChanged notification whose payload is not  *)
(* a valid chain pair (a missing payload included), and a                  *)
(* wallet_unlockStateChanged notification whose payload is not a boolean,  *)
(* throw nothing, change no field, emit no event and issue no request; a   *)
(* bootstrap answer with an invalid chain pair leaves the pair alone and   *)
(* emits no chain event, one with an invalid unlock value leaves           *)
(* isUnlocked alone, and neither throws.  The code destructures the chain  *)
(* payload in the parameter list, which throws a TypeError for null.       *)
(***************************************************************************)
Discarded ==
    /\ last.thrown = "none"
    /\ last.trace = <<>>
    /\ last.out = <<>>
    /\ FieldsUnchanged

C18_MalformedDataDiscarded ==
    /\ (Notified(wallet_chainChanged) /\ ~ValidChain(Prop(last.arg, "result"))) =>
           Discarded
    /\ (Notified(wallet_unlockStateChanged) /\ Prop(last.arg, "result").t # "boolean") =>
           Discarded
    /\ (/\ BootstrapAnswered
        /\ Succeeded
        /\ Prop(last.arg.res, "result").t = "object") =>
           LET state == Prop(last.arg.res, "result")
           IN  /\ last.thrown = "none"
               /\ ~ValidChain(state) =>
                      /\ chainId = last.pre.chainId
                      /\ networkVersion = last.pre.networkVersion
                      /\ Emitted(ChainEvents) = <<>>
               /\ Prop(state, "isUnlocked").t # "boolean" =>
                      /\ isUnlocked = last.pre.isUnlocked
                      /\ last.out = <<>>

(***************************************************************************)
(* C19: a run forwards an internal eth_accounts request, and just one,     *)
(* exactly when it changes isUnlocked from false to true; a                *)
(* wallet_unlockStateChanged notification changes the accounts only if it  *)
(* changes isUnlocked from true to false; one that carries the stored      *)
(* value forwards nothing, emits nothing and changes no field; and neither *)
(* the runs of the unlock transition nor the run that handles a failed     *)
(* answer to the internal request throw.                                   *)
(***************************************************************************)
\* the internal eth_accounts requests among the requests of a run
InternalRequests(out) ==
    {i \in DOMAIN out :
        /\ out[i].cb.name = "accountsCallback"
        /\ out[i].cb.isInternal
        /\ out[i].cb.callback = NOOP
        /\ Prop(out[i].payload, "method") = Str(eth_accounts)
        /\ Prop(out[i].payload, "params") = Arr(<<>>)}

C19_ResyncOnUnlockOnly ==
    last # idle =>
        /\ Cardinality(InternalRequests(last.out)) =
               IF last.pre.isUnlocked = Bool(FALSE) /\ isUnlocked = Bool(TRUE)
               THEN 1 ELSE 0
        /\ \A i \in DOMAIN last.out :
               (last.out[i].cb.name = "accountsCallback" /\ last.out[i].cb.isInternal)
                   => i \in InternalRequests(last.out)
        /\ Notified(wallet_unlockStateChanged) =>
               /\ last.thrown = "none"
               /\ accounts # last.pre.accounts =>
                      last.pre.isUnlocked = Bool(TRUE) /\ isUnlocked = Bool(FALSE)
               /\ Prop(last.arg, "result") = last.pre.isUnlocked => Discarded
        /\ BootstrapAnswered => last.thrown = "none"
        /\ (/\ Ran("response")
            /\ last.arg.request.cb.name = "accountsCallback"
            /\ last.arg.request.cb.isInternal) => last.thrown = "none"

\* C19 witness: an unlock notification arrived at a locked provider that
\* held an account; the internal request left and the account stayed
C19_Witness ==
    /\ Notified(wallet_unlockStateChanged)
    /\ last.pre.isUnlocked = Bool(FALSE)
    /\ isUnlocked = Bool(TRUE)
    /\ Cardinality(InternalRequests(last.out)) = 1
    /\ accounts = Arr(<<Str(addr)>>)
    /\ last.trace = <<>>

(***************************************************************************)
(* C20 as stated: in every state in which isUnlocked is false, the stored  *)
(* accounts are null or the empty sequence and selectedAddress is null.    *)
(* The code clears the accounts when isUnlocked changes to false, and      *)
(* nowhere looks at isUnlocked before it stores accounts.                  *)
(***************************************************************************)
C20_NoAccountsWhileLocked ==
    isUnlocked = Bool(FALSE) =>
        /\ accounts \in {Null, Arr(<<>>)}
        /\ selectedAddress = Null

(***************************************************************************)
(* C21: when the answer to a single eth_accounts / eth_requestAccounts     *)
(* request carries an error and no result, the run does not throw and      *)
(* ends with the stored accounts the empty sequence and selectedAddress    *)
(* null; it emits accountsChanged([]), once, if the accounts stored before *)
(* were null or non-empty, and no event otherwise; and the caller, if      *)
(* there is one, is handed the failure (its future rejects with the error, *)
(* or its callback is called with it) as the last step of the run, seeing  *)
(* the accounts already cleared.                                           *)
(***************************************************************************)
\* the answer carries an error and no result
Failed ==
    /\ \/ Truthy(last.arg.err)
       \/ Truthy(Prop(last.arg.res, "error"))
    /\ Prop(last.arg.res, "result") = Undefined

C21_FailedAnswerClearsAccounts ==
    (AccountsAnswered /\ Failed) =>
        LET n == Len(last.trace)
            handed == last.arg.request.cb.callback.name # "NOOP"
        IN  /\ last.thrown = "none"
            /\ accounts = Arr(<<>>)
            /\ selectedAddress = Null
            /\ Emitted(Events) =
                   IF SameSequence(last.pre.accounts, Arr(<<>>)) THEN <<>>
                   ELSE <<[event |-> "accountsChanged", arg |-> Arr(<<>>)]>>
            /\ n = Len(Emitted(Events)) + (IF handed THEN 1 ELSE 0)
            /\ handed =>
                   /\ \/ /\ last.trace[n].event = "reject"
                         /\ last.trace[n].arg = Or(last.arg.err, Prop(last.arg.res, "error"))
                      \/ /\ last.trace[n].event = "callback"
                         /\ last.trace[n].arg = [err |-> last.arg.err, res |-> last.arg.res]
                   /\ last.trace[n].at.accounts = Arr(<<>>)
                   /\ last.trace[n].at.selectedAddress = Null

\* C21 witness: an eth_requestAccounts request of a provider that held an
\* account was rejected; accountsChanged([]) came before the rejection
C21_Witness ==
    /\ AccountsAnswered
    /\ Failed
    /\ Prop(last.arg.request.payload, "method") = Str(eth_requestAccounts)
    /\ last.pre.accounts = Arr(<<Str(addr)>>)
    /\ last.pre.selectedAddress = Str(addr)
    /\ Names(last.trace) = <<"accountsChanged", "reject">>
    /\ last.trace[1].arg = Arr(<<>>)
    /\ accounts = Arr(<<>>)
    /\ selectedAddress = Null

====
